---- MODULE Spec2Model ----
(***************************************************************************)
(* Model of the collaborative canvas client: CanvasManager (layers,         *)
(* strokes, undo/redo history, resize), WebSocketClient (relay listeners    *)
(* and senders) and the CollaborativeCanvasApp wiring between the two.      *)
(*                                                                          *)
(* A raster buffer is a sequence of pixels over a one-dimensional row of    *)
(* cells; a pixel is "none" (transparent) or the id of the author whose     *)
(* stroke painted it.  A snapshot (toDataURL) is the pixel sequence of the  *)
(* buffer; decoding it is asynchronous (Image.onload) and drawImage scales  *)
(* it into the destination rectangle.  A window resize and the change of    *)
(* getBoundingClientRect() it announces are one step, so rect.width * dpr   *)
(* is the width of the display canvas throughout.                           *)
(***************************************************************************)
EXTENDS Integers, Sequences, FiniteSets, TLC

\* ---------------------------------------------------------------- bounds
MaxSize == 2          \* widest canvas, in cells
MAX_STACK == 2        \* this.MAX_STACK (50 in the source), scaled down
MaxPending == 2       \* image decodes that may be in flight at once
MaxEvents == 4        \* input events per behaviour, all handlers enabled
MaxLocalEvents == 5   \* input events per behaviour, local user alone
MaxRemoteEvents == 4  \* input events per behaviour, relay and gestures
MaxHistoryEvents == 6 \* input events per behaviour, gestures and history
MaxPeerEvents == 5    \* input events per behaviour, the user and one peer
MaxRosterEvents == 4  \* input events per behaviour, roster and remote layers
MaxStrokeEvents == 5  \* input events per behaviour, strokes of user and peer
MaxWireEvents == 4    \* input events per behaviour, gestures and the relay link

dpr == 1              \* window.devicePixelRatio || 1

Me == "me"
Users == {"u1", "u2"}
AllIds == {Me} \cup Users
NoId == ""            \* data.userId of an event that carries none
None == "none"
Sizes == 1..MaxSize
Cells == 0..(MaxSize - 1)
Modes == {"brush", "eraser"}

VARIABLES
  size,        \* canvas.width = userCanvas.width (= rect.width * dpr)
  out,         \* pixels of the display canvas (this.canvas)
  userCanvas,  \* pixels of this.userCanvas
  userCtx,     \* this.userCtx: composite operation and current path
  remoteOrder, \* keys of this.remoteCanvases, in insertion order
  remote,      \* this.remoteCanvases: userId -> {canvas, ctx}
  drawing, lastPos, mode,
  undoStack, redoStack,
  pending,     \* Image objects whose onload has not fired yet
  connected,   \* WebSocketClient.connected
  emitted,     \* events handed to socket.emit by the last handler
  op,          \* the handler that ran last, whose event it was, its result
  rt,          \* history variable: progress of an undo(); redo() pair
  rs,          \* history variable: the layers when setCanvasSize() began
  nEv,         \* input events handled so far
  users,       \* CollaborativeCanvasApp.users: the roster, by userId
  cursors,     \* userIds with a cursor-<userId> element in the page
  peer,        \* another client's remoteCanvases entry for this user
  peerPending, \* that client's Image objects decoding this user's snapshots
  link,        \* history variable: what the relay did with this user's events
  stroke       \* history variable: the stroke session of each author,
               \* as the drawing events received (sent, for the user) show it

vars == <<size, out, userCanvas, userCtx, remoteOrder, remote, drawing,
          lastPos, mode, undoStack, redoStack, pending, connected, emitted,
          op, rt, rs, nEv, users, cursors, peer, peerPending, link,
          stroke>>

canvasVars == <<size, out, userCanvas, userCtx>>
remoteVars == <<remoteOrder, remote>>
gestureVars == <<drawing, lastPos, mode>>
historyVars == <<undoStack, redoStack>>
sessionVars == <<users, cursors>>
peerVars == <<peer, peerPending, link>>
strokeVars == <<stroke>>

\* ------------------------------------------------------- raster helpers
Min(a, b) == IF a < b THEN a ELSE b
Max(a, b) == IF a < b THEN b ELSE a

Blank(w) == [i \in 1..w |-> None]

\* snapshots a peer may send: a blank layer and a layer painted on its left
\* half, taken on a canvas two cells wide
Snapshots(u) == {<<None, None>>, <<u, None>>}

\* cells covered by the line segment from a to b (round caps)
Seg(a, b) == {c \in Cells : Min(a, b) <= c /\ c <= Max(a, b)}

\* the state of a 2d context that matters here; a fresh or resized canvas
NoPath == [gco |-> "source-over", pt |-> -1, cells |-> {}]

\* globalCompositeOperation chosen from the stroke's mode
GcoOf(m) == IF m = "eraser" THEN "destination-out" ELSE "source-over"

\* ctx.beginPath(); ctx.moveTo(p)
BeginAt(ctx, p) == [ctx EXCEPT !.pt = p, !.cells = {}]

\* ctx.lineTo(p): with no current point it only sets one
LineTo(ctx, p) ==
  IF ctx.pt = -1 THEN [ctx EXCEPT !.pt = p]
  ELSE [ctx EXCEPT !.pt = p, !.cells = ctx.cells \cup Seg(ctx.pt, p)]

\* ctx.closePath(): the closing segment and the new current point (the
\* subpath's start) lie inside the interval the path already covers, so on a
\* one-dimensional row no later lineTo() covers a cell it would not have
ClosePath(ctx) == ctx

\* ctx.stroke(): paints the whole current path under the composite operation
Stroke(buf, ctx, tag) ==
  [i \in 1..Len(buf) |->
     IF (i - 1) \in ctx.cells
     THEN (IF ctx.gco = "destination-out" THEN None ELSE tag)
     ELSE buf[i]]

\* ctx.drawImage(img, 0, 0, w, h) on a context scaled by dpr
DrawImage(buf, img, w, gco) ==
  [i \in 1..Len(buf) |->
     IF i <= w * dpr
     THEN LET s == img[(((i - 1) * Len(img)) \div (w * dpr)) + 1]
          IN  IF s = None THEN buf[i]
              ELSE IF gco = "destination-out" THEN None ELSE s
     ELSE buf[i]]

toDataURLBlank(buf) == Blank(Len(buf))

\* canvas.toDataURL() and the Image decoded from it: a lossless copy of the
\* pixels at the canvas's size
toDataURL(buf) == [i \in 1..Len(buf) |-> buf[i]]

NoLayer == [buf |-> <<>>, ctx |-> NoPath]

RECURSIVE ComposeOver(_, _, _, _)
ComposeOver(acc, order, layers, w) ==
  IF order = <<>> THEN acc
  ELSE ComposeOver(DrawImage(acc, layers[Head(order)].buf, w, "source-over"),
                   Tail(order), layers, w)

\* composeLayers(): clear, the user's canvas first, then each remote canvas
composeLayers(ubuf, order, layers, w) ==
  ComposeOver(DrawImage(Blank(w * dpr), ubuf, w, "source-over"), order, layers, w)

pushUndoBlank(stack, snap) ==
  Append(IF Len(stack) >= MAX_STACK THEN Tail(stack) ELSE stack,
         Blank(Len(snap)))

\* pushUndo(): evict the oldest entry at capacity, then push
pushUndo(stack, snap) ==
  Append(IF Len(stack) >= MAX_STACK THEN Tail(stack) ELSE stack, snap)

Pop(stack) == SubSeq(stack, 1, Len(stack) - 1)
Top(stack) == stack[Len(stack)]

Ev(type, phase, pos, m, data) ==
  [type |-> type, phase |-> phase, pos |-> pos, mode |-> m, data |-> data]

\* sendDrawing / sendUndo / sendRedo / clearCanvas: nothing when disconnected
Send(evs) == IF connected THEN evs ELSE <<>>

\* an Image being decoded: what its onload will do, to whose layer, the
\* decoded pixels, and the rect captured by the closure (setCanvasSize only)
Img(kind, who, img, rect) == [kind |-> kind, who |-> who, img |-> img, rect |-> rect]

Remove(seq, i) == SubSeq(seq, 1, i - 1) \o SubSeq(seq, i + 1, Len(seq))

LocalKinds == {"undo", "redo", "load", "resizeUser"}
LocalDecodePending == \E i \in 1..Len(pending) : pending[i].kind \in LocalKinds

\* a handler that returned: its result, and no exception
Done(name, who, ok) ==
  [name |-> name, who |-> who, ok |-> ok, err |-> "none", arg |-> <<>>]

\* a handler that ended in an exception or a rejected promise nobody catches
Threw(name, who, err) ==
  [name |-> name, who |-> who, ok |-> FALSE, err |-> err, arg |-> <<>>]

NoRt == [phase |-> 0, before |-> <<>>, act |-> "none", pre |-> <<>>]
NoRs == [on |-> FALSE, user |-> <<>>, order |-> <<>>, layers |-> <<>>]

\* an author of whom no drawing event has been seen yet
NoStroke == [session |-> "none", last |-> "none"]

\* the state after the constructor: initCanvas() has called setCanvasSize(),
\* whose userImg (the still blank userCanvas) is being decoded
Init ==
  /\ size = MaxSize * dpr
  /\ out = Blank(size)
  /\ userCanvas = Blank(size)
  /\ userCtx = NoPath
  /\ remoteOrder = <<>>
  /\ remote = [u \in AllIds |-> NoLayer]
  /\ drawing = FALSE
  /\ lastPos = 0
  /\ mode = "brush"
  /\ undoStack = <<>>
  /\ redoStack = <<>>
  /\ pending = <<Img("resizeUser", Me, Blank(1), MaxSize)>>
  /\ connected = FALSE
  /\ emitted = <<>>
  /\ op = Done("constructor", Me, TRUE)
  /\ rt = NoRt
  /\ rs = NoRs
  /\ nEv = 0
  /\ users = <<>>
  /\ cursors = {}
  /\ peer = NoLayer
  /\ peerPending = <<>>
  /\ link = [lossless |-> TRUE, healed |-> FALSE]
  /\ stroke = [u \in AllIds |-> NoStroke]

\* ------------------------------------------------------ local gestures
\* a handler that returns at once: only the history variables record it
Ignored(name, who) ==
  /\ op' = Done(name, who, FALSE)
  /\ emitted' = <<>>
  /\ UNCHANGED <<canvasVars, remoteVars, gestureVars, historyVars, pending,
                 connected>>

\* handlePointerDown(e)
handlePointerDown(pos, button) ==
  /\ nEv' = nEv + 1
  /\ rt' = IF button # 0 THEN NoRt
           ELSE [NoRt EXCEPT !.act = "open", !.pre = userCanvas]
  /\ rs' = NoRs
  /\ IF button # 0
     THEN Ignored("pointerdown", Me)
     ELSE /\ undoStack' = pushUndo(undoStack, toDataURL(userCanvas))
          /\ drawing' = TRUE
          /\ lastPos' = pos
          /\ userCtx' = BeginAt([userCtx EXCEPT !.gco = GcoOf(mode)], pos)
          /\ emitted' = Send(<<Ev("drawing", "start", pos, mode, <<>>)>>)
          /\ op' = Done("pointerdown", Me, TRUE)
          /\ UNCHANGED <<size, out, userCanvas, remoteVars, mode, redoStack,
                         pending, connected>>

\* handlePointerMove(e)
handlePointerMove(pos) ==
  /\ nEv' = nEv + 1
  /\ rt' = IF drawing /\ rt.act = "open" THEN rt ELSE NoRt
  /\ rs' = NoRs
  /\ IF ~drawing
     THEN Ignored("pointermove", Me)
     ELSE /\ userCtx' = LineTo(userCtx, pos)
          /\ userCanvas' = Stroke(userCanvas, userCtx', Me)
          /\ lastPos' = pos
          /\ out' = composeLayers(userCanvas', remoteOrder, remote, size)
          /\ emitted' = Send(<<Ev("drawing", "move", pos, mode, <<>>)>>)
          /\ op' = Done("pointermove", Me, TRUE)
          /\ UNCHANGED <<size, remoteVars, drawing, mode, historyVars,
                         pending, connected>>

\* handlePointerUp(e), also the pointercancel listener
handlePointerUp ==
  /\ nEv' = nEv + 1
  /\ rt' = IF drawing /\ rt.act = "open" THEN [rt EXCEPT !.act = "done"]
           ELSE NoRt
  /\ rs' = NoRs
  /\ IF ~drawing
     THEN Ignored("pointerup", Me)
     ELSE /\ drawing' = FALSE
          /\ userCtx' = ClosePath(userCtx)
          /\ redoStack' = <<>>
          /\ emitted' = Send(<<Ev("drawing", "end", lastPos, mode, <<>>)>>)
          /\ out' = composeLayers(userCanvas, remoteOrder, remote, size)
          /\ op' = Done("pointerup", Me, TRUE)
          /\ UNCHANGED <<size, userCanvas, remoteVars, lastPos, mode,
                         undoStack, pending, connected>>

\* setMode(mode), from the brush/eraser buttons and the B/E keys
setMode(m) ==
  /\ nEv' = nEv + 1
  /\ rt' = NoRt
  /\ rs' = NoRs
  /\ mode' = m
  /\ emitted' = <<>>
  /\ op' = Done("setMode", Me, TRUE)
  /\ UNCHANGED <<canvasVars, remoteVars, drawing, lastPos, historyVars,
                 pending, connected>>

clearEverything ==
  /\ nEv' = nEv + 1
  /\ rt' = [NoRt EXCEPT !.act = "done", !.pre = userCanvas]
  /\ rs' = NoRs
  /\ undoStack' = pushUndo(undoStack, toDataURL(userCanvas))
  /\ userCanvas' = Blank(Len(userCanvas))
  /\ redoStack' = <<>>
  /\ remote' = [v \in AllIds |->
                  IF remote[v].buf = <<>> THEN remote[v]
                  ELSE [remote[v] EXCEPT !.buf = Blank(Len(remote[v].buf))]]
  /\ out' = composeLayers(userCanvas', remoteOrder, remote', size)
  /\ emitted' = Send(<<Ev("clear-canvas", "", 0, "", <<>>)>>)
  /\ op' = Done("clear", Me, TRUE)
  /\ UNCHANGED <<size, userCtx, remoteOrder, gestureVars, pending, connected>>

\* clearBtn click: canvasManager.clear(); wsClient.clearCanvas()
clear ==
  /\ nEv' = nEv + 1
  /\ rt' = [NoRt EXCEPT !.act = "done", !.pre = userCanvas]
  /\ rs' = NoRs
  /\ undoStack' = pushUndo(undoStack, toDataURL(userCanvas))
  /\ userCanvas' = Blank(Len(userCanvas))
  /\ redoStack' = <<>>
  /\ out' = composeLayers(userCanvas', remoteOrder, remote, size)
  /\ emitted' = Send(<<Ev("clear-canvas", "", 0, "", <<>>)>>)
  /\ op' = Done("clear", Me, TRUE)
  /\ UNCHANGED <<size, userCtx, remoteVars, gestureVars, pending, connected>>

\* -------------------------------------------------------- undo / redo
resolveTrue(name) ==
  /\ op' = Done(name, Me, TRUE)
  /\ emitted' = Send(<<Ev(name, "", 0, "", toDataURL(userCanvas))>>)
  /\ UNCHANGED <<canvasVars, remoteVars, gestureVars, historyVars, pending,
                 connected>>

\* return Promise.resolve(false), and the caller's `if (success)` not taken
resolveFalse(name) == Ignored(name, Me)

\* undo(), called by the undo button and Ctrl+Z
undo ==
  /\ nEv' = nEv + 1
  /\ rs' = NoRs
  /\ IF Len(undoStack) = 0
     THEN /\ resolveFalse("undo")
          /\ rt' = NoRt
     ELSE /\ Len(pending) < MaxPending
          /\ redoStack' = Append(redoStack, toDataURL(userCanvas))
          /\ undoStack' = Pop(undoStack)
          /\ pending' = Append(pending, Img("undo", Me, Top(undoStack), 0))
          /\ emitted' = <<>>
          /\ op' = Done("undo", Me, TRUE)
          /\ rt' = IF LocalDecodePending THEN NoRt
                   ELSE IF rt.act = "done"
                     THEN [rt EXCEPT !.phase = 1, !.before = userCanvas,
                                     !.act = "undone"]
                   ELSE [NoRt EXCEPT !.phase = 1, !.before = userCanvas]
          /\ UNCHANGED <<canvasVars, remoteVars, gestureVars, connected>>

\* redo(), called by the redo button, Ctrl+Shift+Z and Ctrl+Y
redo ==
  /\ nEv' = nEv + 1
  /\ rs' = NoRs
  /\ IF Len(redoStack) = 0
     THEN /\ resolveFalse("redo")
          /\ rt' = NoRt
     ELSE /\ Len(pending) < MaxPending
          /\ undoStack' = Append(undoStack, toDataURL(userCanvas))
          /\ redoStack' = Pop(redoStack)
          /\ pending' = Append(pending, Img("redo", Me, Top(redoStack), 0))
          /\ emitted' = <<>>
          /\ op' = Done("redo", Me, TRUE)
          /\ rt' = IF rt.phase = 2
                   THEN [NoRt EXCEPT !.phase = 3, !.before = rt.before]
                   ELSE NoRt
          /\ UNCHANGED <<canvasVars, remoteVars, gestureVars, connected>>

applyDataUrlStale(i) ==
  /\ pending[i].kind \in {"undo", "redo", "load"}
  /\ userCanvas' = DrawImage(Blank(Len(userCanvas)), pending[i].img, size,
                             "source-over")
  /\ userCtx' = [userCtx EXCEPT !.gco = "source-over"]
  /\ out' = composeLayers(userCanvas', remoteOrder, remote, size)
  /\ pending' = Remove(pending, i)
  /\ emitted' = IF pending[i].kind = "load" THEN <<>>
                ELSE Send(<<Ev(pending[i].kind, "", 0, "",
                               toDataURL(userCanvas))>>)
  /\ op' = Done("onload", pending[i].kind, TRUE)
  /\ rt' = NoRt
  /\ rs' = NoRs
  /\ UNCHANGED <<size, remoteVars, gestureVars, historyVars, connected, nEv>>

\* applyDataUrl(dataUrl): img.onload, then the caller's continuation
\* (undo/redo handlers: getCanvasData() and sendUndo / sendRedo)
applyDataUrl(i) ==
  /\ pending[i].kind \in {"undo", "redo", "load"}
  /\ userCanvas' = DrawImage(Blank(Len(userCanvas)), pending[i].img, size,
                             "source-over")
  /\ userCtx' = [userCtx EXCEPT !.gco = "source-over"]
  /\ out' = composeLayers(userCanvas', remoteOrder, remote, size)
  /\ pending' = Remove(pending, i)
  /\ emitted' = IF pending[i].kind = "load" THEN <<>>
                ELSE Send(<<Ev(pending[i].kind, "", 0, "",
                               toDataURL(userCanvas'))>>)
  /\ op' = Done("onload", pending[i].kind, TRUE)
  /\ rt' = IF pending[i].kind = "undo" /\ rt.phase = 1
             THEN [rt EXCEPT !.phase = 2,
                             !.act = IF rt.act = "undone" THEN "restored"
                                     ELSE "none"]
           ELSE IF pending[i].kind = "redo" /\ rt.phase = 3
             THEN [rt EXCEPT !.phase = 4]
           ELSE NoRt
  /\ rs' = NoRs
  /\ UNCHANGED <<size, remoteVars, gestureVars, historyVars, connected, nEv>>

\* applyDataUrl(dataUrl): img.onerror rejects the promise; undo()/redo()
\* pass the rejection on, the handlers that await them have no catch and
\* loadCanvasData() drops the promise
applyDataUrlError(i) ==
  /\ pending[i].kind \in {"undo", "redo", "load"}
  /\ pending' = Remove(pending, i)
  /\ emitted' = <<>>
  /\ op' = Threw("onerror", pending[i].kind, "rejected")
  /\ rt' = NoRt
  /\ rs' = NoRs
  /\ UNCHANGED <<canvasVars, remoteVars, gestureVars, historyVars, connected,
                 nEv>>

\* ------------------------------------------------------------- resize
RECURSIVE RemoteImgs(_, _, _)
RemoteImgs(order, layers, rect) ==
  IF order = <<>> THEN <<>>
  ELSE <<Img("resizeRemote", Head(order), toDataURL(layers[Head(order)].buf),
             rect)>> \o RemoteImgs(Tail(order), layers, rect)

\* setCanvasSize(), on window resize with the new rect width
setCanvasSize(w) ==
  /\ Len(pending) + 1 + Len(remoteOrder) <= MaxPending
  /\ nEv' = nEv + 1
  /\ size' = w * dpr
  /\ out' = Blank(w * dpr)
  /\ userCanvas' = Blank(w * dpr)
  /\ userCtx' = NoPath
  /\ pending' = pending \o <<Img("resizeUser", Me, toDataURL(userCanvas), w)>>
                        \o RemoteImgs(remoteOrder, remote, w)
  /\ emitted' = <<>>
  /\ op' = Done("resize", Me, TRUE)
  /\ rt' = NoRt
  /\ rs' = IF pending = <<>>
           THEN [on |-> TRUE, user |-> userCanvas, order |-> remoteOrder,
                 layers |-> remote]
           ELSE NoRs
  /\ UNCHANGED <<remoteVars, gestureVars, historyVars, connected>>

\* setCanvasSize: userImg.onload
userImgOnload(i) ==
  /\ pending[i].kind = "resizeUser"
  /\ userCanvas' = DrawImage(Blank(Len(userCanvas)), pending[i].img,
                             pending[i].rect, userCtx.gco)
  /\ out' = composeLayers(userCanvas', remoteOrder, remote, size)
  /\ pending' = Remove(pending, i)
  /\ emitted' = <<>>
  /\ op' = Done("onload", "resizeUser", TRUE)
  /\ rt' = IF rt.phase = 0 THEN rt ELSE NoRt
  /\ UNCHANGED <<size, userCtx, remoteVars, gestureVars, historyVars,
                 connected, rs, nEv>>

\* setCanvasSize: img.onload of one remote canvas (no recompose)
remoteImgOnload(i) ==
  /\ pending[i].kind = "resizeRemote"
  /\ LET u == pending[i].who IN
       remote' = IF u \in AllIds
                 THEN [remote EXCEPT ![u].buf =
                         DrawImage(Blank(Len(remote[u].buf)), pending[i].img,
                                   pending[i].rect, remote[u].ctx.gco)]
                 ELSE remote
  /\ op' = Done("onload", "resizeRemote", TRUE)
  /\ pending' = Remove(pending, i)
  /\ emitted' = <<>>
  /\ UNCHANGED <<canvasVars, remoteOrder, gestureVars, historyVars, connected,
                 rt, rs, nEv>>

\* ------------------------------------------------------ remote layers
Has(u) == \E k \in 1..Len(remoteOrder) : remoteOrder[k] = u

OrderFront(u) == IF Has(u) THEN remoteOrder ELSE <<u>> \o remoteOrder

\* getOrCreateRemoteCanvas(userId): the key list and the layers after it
OrderWith(u) == IF Has(u) THEN remoteOrder ELSE Append(remoteOrder, u)
LayersWith(u) ==
  IF Has(u) THEN remote
  ELSE [remote EXCEPT ![u] = [buf |-> Blank(size), ctx |-> NoPath]]

fromNobody(u) == FALSE

\* data.userId === this.userId: the relay looped the user's own event back
fromSelf(u) == u = Me

\* the stroke step on one context and its canvas
drawOn(layer, tag, type, pos, m) ==
  LET c0 == [layer.ctx EXCEPT !.gco = GcoOf(m)]
  IN  IF type = "start" THEN [layer EXCEPT !.ctx = BeginAt(c0, pos)]
      ELSE IF type = "move"
        THEN [buf |-> Stroke(layer.buf, LineTo(c0, pos), tag),
              ctx |-> LineTo(c0, pos)]
      ELSE [layer EXCEPT !.ctx = ClosePath(c0)]

applyRemoteDrawingShared(layers, u, type, pos, m) ==
  [v \in AllIds |->
     IF v = u THEN drawOn(layers[v], u, type, pos, m)
     ELSE IF m = "eraser" /\ type = "move" /\ layers[v].buf # <<>>
       THEN [layers[v] EXCEPT !.buf =
               Stroke(layers[v].buf, drawOn(layers[u], u, type, pos, m).ctx, u)]
     ELSE layers[v]]

applyRemoteDrawingFirst(layers, u, type, pos, m) ==
  LET v == IF remoteOrder = <<>> THEN u ELSE remoteOrder[1]
  IN  [layers EXCEPT ![v] = drawOn(layers[v], u, type, pos, m)]

\* applyRemoteDrawing(drawData): remoteCanvases after the stroke step on the
\* layer of drawData.userId
applyRemoteDrawing(layers, u, type, pos, m) ==
  [layers EXCEPT ![u] = drawOn(layers[u], u, type, pos, m)]

\* socket.on('drawing') -> wsClient.onDrawing -> applyRemoteDrawing
onDrawing(u, type, pos, m) ==
  /\ nEv' = nEv + 1
  /\ rt' = NoRt
  /\ rs' = NoRs
  /\ IF fromSelf(u)
     THEN Ignored("on:drawing", u)
     ELSE /\ remoteOrder' = OrderWith(u)
          /\ remote' = applyRemoteDrawing(LayersWith(u), u, type, pos, m)
          /\ out' = IF type = "start" THEN out
                    ELSE composeLayers(userCanvas, remoteOrder', remote', size)
          /\ op' = Done("on:drawing", u, TRUE)
          /\ emitted' = <<>>
          /\ UNCHANGED <<size, userCanvas, userCtx, gestureVars, historyVars,
                         pending, connected>>

\* this.users, a Map: its keys in insertion order
InRoster(u) == \E k \in 1..Len(users) : users[k] = u
Roster == {users[k] : k \in 1..Len(users)}

\* updateRemoteCursor(userId, username, color, pos): the cursor elements
\* after it; a null pos removes the user's element
updateRemoteCursor(u, shown) ==
  IF shown THEN cursors \cup {u} ELSE cursors \ {u}

\* socket.on('cursor-move') -> onCursorMove: touches the cursor elements only
onCursorMove(u, shown) ==
  /\ nEv' = nEv + 1
  /\ rt' = NoRt
  /\ rs' = NoRs
  /\ users' = users
  /\ IF fromSelf(u)
     THEN Ignored("on:cursor-move", u) /\ cursors' = cursors
     ELSE /\ op' = Done("on:cursor-move", u, TRUE)
          /\ emitted' = <<>>
          /\ cursors' = IF InRoster(u) THEN updateRemoteCursor(u, shown)
                        ELSE cursors
          /\ UNCHANGED <<canvasVars, remoteVars, gestureVars, historyVars,
                         pending, connected>>

clearAllRemoteCanvases(layers, u) ==
  [v \in AllIds |->
     IF layers[v].buf = <<>> THEN layers[v]
     ELSE [layers[v] EXCEPT !.buf = Blank(Len(layers[v].buf))]]

\* clearRemoteCanvas(userId): remoteCanvases after clearRect on that layer
clearRemoteCanvas(layers, u) ==
  [layers EXCEPT ![u].buf = Blank(Len(layers[u].buf))]

\* socket.on('clear-canvas') -> wsClient.onClearCanvas -> clearRemoteCanvas
onClearCanvas(u) ==
  /\ nEv' = nEv + 1
  /\ rt' = NoRt
  /\ rs' = NoRs
  /\ IF ~fromSelf(u) /\ Has(u)
     THEN /\ remote' = clearRemoteCanvas(remote, u)
          /\ out' = composeLayers(userCanvas, remoteOrder, remote', size)
          /\ op' = Done("on:clear-canvas", u, TRUE)
          /\ emitted' = <<>>
          /\ UNCHANGED <<size, userCanvas, userCtx, remoteOrder, gestureVars,
                         historyVars, pending, connected>>
     ELSE Ignored("on:clear-canvas", u)

\* socket.on('undo') / socket.on('redo') -> onUndo / onRedo ->
\* updateRemoteCanvas(userId, dataUrl), up to img.src = dataUrl
onUndoRedo(kind, u, data) ==
  /\ nEv' = nEv + 1
  /\ rt' = NoRt
  /\ rs' = NoRs
  /\ IF fromSelf(u)
     THEN Ignored(kind, u)
     ELSE /\ Len(pending) < MaxPending
          /\ remoteOrder' = OrderWith(u)
          /\ remote' = LayersWith(u)
          /\ pending' = Append(pending, Img("remoteUpdate", u, data, 0))
          /\ op' = Done(kind, u, TRUE)
          /\ emitted' = <<>>
          /\ UNCHANGED <<canvasVars, gestureVars, historyVars, connected>>

updateRemoteCanvasOver(i) ==
  /\ pending[i].kind = "remoteUpdate"
  /\ LET u == pending[i].who IN
       remote' = IF u \in AllIds
                 THEN [remote EXCEPT
                         ![u].buf = DrawImage(remote[u].buf, pending[i].img,
                                              size, "source-over"),
                         ![u].ctx.gco = "source-over"]
                 ELSE remote
  /\ op' = Done("onload", "remoteUpdate", TRUE)
  /\ out' = composeLayers(userCanvas, remoteOrder, remote', size)
  /\ pending' = Remove(pending, i)
  /\ emitted' = <<>>
  /\ UNCHANGED <<size, userCanvas, userCtx, remoteOrder, gestureVars,
                 historyVars, connected, rt, rs, nEv>>

\* updateRemoteCanvas: img.onload
updateRemoteCanvas(i) ==
  /\ pending[i].kind = "remoteUpdate"
  /\ LET u == pending[i].who IN
       remote' = IF u \in AllIds
                 THEN [remote EXCEPT
                         ![u].buf = DrawImage(Blank(Len(remote[u].buf)),
                                              pending[i].img, size,
                                              "source-over"),
                         ![u].ctx.gco = "source-over"]
                 ELSE remote
  /\ op' = Done("onload", "remoteUpdate", TRUE)
  /\ out' = composeLayers(userCanvas, remoteOrder, remote', size)
  /\ pending' = Remove(pending, i)
  /\ emitted' = <<>>
  /\ UNCHANGED <<size, userCanvas, userCtx, remoteOrder, gestureVars,
                 historyVars, connected, rt, rs, nEv>>

\* updateRemoteCanvas: img.onerror logs and returns
updateRemoteCanvasError(i) ==
  /\ pending[i].kind = "remoteUpdate"
  /\ op' = Done("onerror", "remoteUpdate", FALSE)
  /\ pending' = Remove(pending, i)
  /\ emitted' = <<>>
  /\ UNCHANGED <<canvasVars, remoteVars, gestureVars, historyVars, connected,
                 rt, rs, nEv>>

\* socket.on('canvas-state') -> onCanvasState -> loadCanvasData(dataUrl)
onCanvasState(data) ==
  /\ Len(pending) < MaxPending
  /\ nEv' = nEv + 1
  /\ rt' = NoRt
  /\ rs' = NoRs
  /\ pending' = Append(pending, Img("load", Me, data, 0))
  /\ emitted' = <<>>
  /\ op' = Done("on:canvas-state", Me, TRUE)
  /\ UNCHANGED <<canvasVars, remoteVars, gestureVars, historyVars, connected>>

\* pending decodes whose canvas was dropped from remoteCanvases
Orphan(p, u) ==
  [k \in 1..Len(p) |->
     IF p[k].who = u /\ p[k].kind \in {"resizeRemote", "remoteUpdate"}
     THEN [p[k] EXCEPT !.who = "orphan"] ELSE p[k]]

Without(order, u) == SelectSeq(order, LAMBDA x : x # u)

\* socket.on('user-left') -> onUserLeave -> removeRemoteUser(userId)
onUserLeave(u) ==
  /\ nEv' = nEv + 1
  /\ rt' = NoRt
  /\ rs' = NoRs
  /\ users' = Without(users, u)
  /\ cursors' = updateRemoteCursor(u, FALSE)
  /\ op' = Done("on:user-left", u, TRUE)
  /\ emitted' = <<>>
  /\ IF Has(u)
     THEN /\ remoteOrder' = Without(remoteOrder, u)
          /\ remote' = [remote EXCEPT ![u] = NoLayer]
          /\ pending' = Orphan(pending, u)
          /\ out' = composeLayers(userCanvas, remoteOrder', remote', size)
          /\ UNCHANGED <<size, userCanvas, userCtx, gestureVars, historyVars,
                         connected>>
     ELSE UNCHANGED <<canvasVars, remoteVars, gestureVars, historyVars,
                      pending, connected>>

\* socket.on('user-joined') -> onUserJoin
onUserJoin(u) ==
  /\ nEv' = nEv + 1
  /\ rt' = NoRt
  /\ rs' = NoRs
  /\ users' = IF InRoster(u) THEN users ELSE Append(users, u)
  /\ cursors' = cursors
  /\ op' = Done("on:user-joined", u, TRUE)
  /\ emitted' = <<>>
  /\ UNCHANGED <<canvasVars, remoteVars, gestureVars, historyVars, pending,
                 connected>>

\* socket.on('users-update') -> onUsersUpdate(data.users)
onUsersUpdate(list) ==
  /\ nEv' = nEv + 1
  /\ rt' = NoRt
  /\ rs' = NoRs
  /\ users' = SelectSeq(list, LAMBDA x : x # Me)
  /\ cursors' = cursors
  /\ op' = [Done("on:users-update", NoId, TRUE) EXCEPT !.arg = list]
  /\ emitted' = <<>>
  /\ UNCHANGED <<canvasVars, remoteVars, gestureVars, historyVars, pending,
                 connected>>

\* socket.on('users-update') with no users list: users.clear() has run when
\* users.forEach throws
onUsersUpdateNoList ==
  /\ nEv' = nEv + 1
  /\ rt' = NoRt
  /\ rs' = NoRs
  /\ users' = <<>>
  /\ cursors' = cursors
  /\ op' = Threw("bad:users-update", NoId, "TypeError")
  /\ emitted' = <<>>
  /\ UNCHANGED <<canvasVars, remoteVars, gestureVars, historyVars, pending,
                 connected>>

\* socket.on('drawing') with no pos -> onDrawing -> applyRemoteDrawing: an
\* event with no userId returns at the guard; otherwise the layer exists and
\* its composite operation is set when pos.x is read
onDrawingNoPos(u, type, m) ==
  /\ nEv' = nEv + 1
  /\ rt' = NoRt
  /\ rs' = NoRs
  /\ UNCHANGED sessionVars
  /\ IF fromSelf(u) \/ u = NoId
     THEN Ignored("bad:drawing", u)
     ELSE /\ remoteOrder' = OrderWith(u)
          /\ remote' = [LayersWith(u) EXCEPT
                          ![u].ctx.gco = GcoOf(m),
                          ![u].ctx = IF type = "end" THEN ClosePath(@) ELSE @]
          /\ out' = IF type = "end"
                    THEN composeLayers(userCanvas, remoteOrder', remote', size)
                    ELSE out
          /\ op' = IF type = "end" THEN Done("bad:drawing", u, TRUE)
                   ELSE Threw("bad:drawing", u, "TypeError")
          /\ emitted' = <<>>
          /\ UNCHANGED <<size, userCanvas, userCtx, gestureVars, historyVars,
                         pending, connected>>

\* a request-canvas-state event: setupSocketListeners registers no listener
\* for it, and sendCanvasState() has no caller
onRequestCanvasState(u) ==
  /\ nEv' = nEv + 1
  /\ rt' = NoRt
  /\ rs' = NoRs
  /\ UNCHANGED sessionVars
  /\ Ignored("on:request-canvas-state", u)

\* socket.on('connect'): join-room, then onConnect -> requestCanvasState()
onConnect ==
  /\ ~connected
  /\ nEv' = nEv + 1
  /\ rt' = NoRt
  /\ rs' = NoRs
  /\ connected' = TRUE
  /\ emitted' = <<Ev("join-room", "", 0, "", <<>>),
                  Ev("request-canvas-state", "", 0, "", <<>>)>>
  /\ op' = Done("connect", Me, TRUE)
  /\ UNCHANGED <<canvasVars, remoteVars, gestureVars, historyVars, pending>>

\* socket.on('disconnect')
onDisconnect ==
  /\ connected
  /\ nEv' = nEv + 1
  /\ rt' = NoRt
  /\ rs' = NoRs
  /\ connected' = FALSE
  /\ emitted' = <<>>
  /\ op' = Done("disconnect", Me, TRUE)
  /\ UNCHANGED <<canvasVars, remoteVars, gestureVars, historyVars, pending>>

\* ------------------------------------------------------- a second peer
\* the layer a peer shows for this user: no layer yet shows nothing
PeerBuf == IF peer.buf = <<>> THEN Blank(size) ELSE peer.buf

\* the peer's handler for one event of this user: applyRemoteDrawing,
\* clearRemoteCanvas, or updateRemoteCanvas up to img.src = dataUrl; q is
\* the peer's layer for this user and its decodes in flight
peerApply(q, ev) ==
  LET made == IF q.layer.buf = <<>>
              THEN [buf |-> Blank(size), ctx |-> NoPath]
              ELSE q.layer
  IN  IF ev.type = "drawing"
        THEN [q EXCEPT !.layer = drawOn(made, Me, ev.phase, ev.pos, ev.mode)]
      ELSE IF ev.type = "clear-canvas"
        THEN IF q.layer.buf = <<>> THEN q
             ELSE [q EXCEPT !.layer.buf = Blank(Len(q.layer.buf))]
      ELSE IF ev.type \in {"undo", "redo"}
        THEN [layer |-> made,
              decodes |-> Append(q.decodes, Img("remoteUpdate", Me, ev.data, 0))]
      ELSE q

RECURSIVE peerApplyAll(_, _)
peerApplyAll(q, evs) ==
  IF evs = <<>> THEN q
  ELSE peerApplyAll(peerApply(q, Head(evs)), Tail(evs))

\* the relay hands the events of this step to the peer in emission order,
\* or loses them; input tells a user input from a decode completion
Deliver(keep, input) ==
  LET q == peerApplyAll([layer |-> peer, decodes |-> peerPending], emitted')
      snap == \E k \in 1..Len(emitted') :
                 emitted'[k].type \in {"clear-canvas", "undo", "redo"}
  IN  /\ peer' = IF keep THEN q.layer ELSE peer
      /\ peerPending' = IF keep THEN q.decodes ELSE peerPending
      /\ link' = [lossless |-> link.lossless /\ (keep \/ emitted' = <<>>),
                  healed |-> IF keep /\ snap THEN TRUE
                             ELSE IF input \/ userCanvas' # userCanvas
                               THEN FALSE
                             ELSE link.healed]

\* the peer's updateRemoteCanvas: img.onload, decodes completing in any order
PeerDecode(j) ==
  /\ peer' = [peer EXCEPT
                !.buf = DrawImage(Blank(Len(peer.buf)), peerPending[j].img,
                                  size, "source-over"),
                !.ctx.gco = "source-over"]
  /\ peerPending' = Remove(peerPending, j)
  /\ op' = Done("onload", "peer", TRUE)
  /\ emitted' = <<>>
  /\ UNCHANGED <<canvasVars, remoteVars, gestureVars, historyVars, pending,
                 connected, rt, rs, nEv, sessionVars, link, strokeVars>>

\* ------------------------------------------------------ specifications
\* pointer events of the local user
Gesture ==
  \/ \E pos \in Cells, button \in {0, 2} : handlePointerDown(pos, button)
  \/ \E pos \in Cells : handlePointerMove(pos)
  \/ handlePointerUp

\* events delivered by the relay
RelayInput ==
  \/ \E u \in AllIds, type \in {"start", "move", "end"}, pos \in Cells,
        m \in Modes : onDrawing(u, type, pos, m) /\ UNCHANGED sessionVars
  \/ \E u \in AllIds, shown \in BOOLEAN : onCursorMove(u, shown)
  \/ \E u \in AllIds : onClearCanvas(u) /\ UNCHANGED sessionVars
  \/ \E kind \in {"on:undo", "on:redo"}, u \in AllIds :
        \E data \in Snapshots(u) :
           onUndoRedo(kind, u, data) /\ UNCHANGED sessionVars
  \/ \E u \in Users : \E data \in Snapshots(u) :
        onCanvasState(data) /\ UNCHANGED sessionVars
  \/ \E u \in AllIds : onUserLeave(u)

\* the users lists a users-update event may carry
Lists ==
  {list \in UNION {[1..n -> AllIds] : n \in 0..2} :
     \A j, k \in 1..Len(list) : list[j] = list[k] => j = k}

\* the relay's roster events, its state request, and events that lack a field
RosterInput ==
  \/ \E u \in AllIds : onUserJoin(u)
  \/ \E list \in Lists : onUsersUpdate(list)
  \/ onUsersUpdateNoList
  \/ \E u \in AllIds \cup {NoId}, type \in {"start", "move", "end"},
        m \in Modes : onDrawingNoPos(u, type, m)
  \/ \E u \in Users : onRequestCanvasState(u)

\* the relay's connection state
Session ==
  \/ onConnect
  \/ onDisconnect

\* every handler: the user, the window, the relay and the image decodes
Next ==
  \/ nEv < MaxEvents /\ Gesture
       /\ UNCHANGED <<sessionVars, peerVars, strokeVars>>
  \/ nEv < MaxEvents /\ (\E m \in Modes : setMode(m))
       /\ UNCHANGED <<sessionVars, peerVars, strokeVars>>
  \/ nEv < MaxEvents /\ clear /\ UNCHANGED <<sessionVars, peerVars, strokeVars>>
  \/ nEv < MaxEvents /\ undo /\ UNCHANGED <<sessionVars, peerVars, strokeVars>>
  \/ nEv < MaxEvents /\ redo /\ UNCHANGED <<sessionVars, peerVars, strokeVars>>
  \/ nEv < MaxEvents /\ (\E w \in Sizes : setCanvasSize(w))
       /\ UNCHANGED <<sessionVars, peerVars, strokeVars>>
  \/ nEv < MaxEvents /\ connected /\ RelayInput
       /\ UNCHANGED <<peerVars, strokeVars>>
  \/ nEv < MaxEvents /\ connected /\ RosterInput
       /\ UNCHANGED <<peerVars, strokeVars>>
  \/ nEv < MaxEvents /\ Session
       /\ UNCHANGED <<sessionVars, peerVars, strokeVars>>
  \/ (\E i \in 1..Len(pending) : applyDataUrl(i))
       /\ UNCHANGED <<sessionVars, peerVars, strokeVars>>
  \/ (\E i \in 1..Len(pending) : applyDataUrlError(i))
       /\ UNCHANGED <<sessionVars, peerVars, strokeVars>>
  \/ (\E i \in 1..Len(pending) : userImgOnload(i))
       /\ UNCHANGED <<sessionVars, peerVars, strokeVars>>
  \/ (\E i \in 1..Len(pending) : remoteImgOnload(i))
       /\ UNCHANGED <<sessionVars, peerVars, strokeVars>>
  \/ (\E i \in 1..Len(pending) : updateRemoteCanvas(i))
       /\ UNCHANGED <<sessionVars, peerVars, strokeVars>>
  \/ (\E i \in 1..Len(pending) : updateRemoteCanvasError(i))
       /\ UNCHANGED <<sessionVars, peerVars, strokeVars>>

Spec == Init /\ [][Next]_vars

\* the local user alone, online or offline: no relay event arrives
NextLocal ==
  \/ nEv < MaxLocalEvents /\ Gesture
       /\ UNCHANGED <<sessionVars, peerVars, strokeVars>>
  \/ nEv < MaxLocalEvents /\ (\E m \in Modes : setMode(m))
       /\ UNCHANGED <<sessionVars, peerVars, strokeVars>>
  \/ nEv < MaxLocalEvents /\ clear
       /\ UNCHANGED <<sessionVars, peerVars, strokeVars>>
  \/ nEv < MaxLocalEvents /\ undo
       /\ UNCHANGED <<sessionVars, peerVars, strokeVars>>
  \/ nEv < MaxLocalEvents /\ redo
       /\ UNCHANGED <<sessionVars, peerVars, strokeVars>>
  \/ nEv < MaxLocalEvents /\ (\E w \in Sizes : setCanvasSize(w))
       /\ UNCHANGED <<sessionVars, peerVars, strokeVars>>
  \/ nEv < MaxLocalEvents /\ Session
       /\ UNCHANGED <<sessionVars, peerVars, strokeVars>>
  \/ (\E i \in 1..Len(pending) : applyDataUrl(i))
       /\ UNCHANGED <<sessionVars, peerVars, strokeVars>>
  \/ (\E i \in 1..Len(pending) : userImgOnload(i))
       /\ UNCHANGED <<sessionVars, peerVars, strokeVars>>

SpecLocal == Init /\ [][NextLocal]_vars

\* a window that is not resized: gestures, clear and the relay's events
NextRemote ==
  \/ nEv < MaxRemoteEvents /\ Gesture
       /\ UNCHANGED <<sessionVars, peerVars, strokeVars>>
  \/ nEv < MaxRemoteEvents /\ (\E m \in Modes : setMode(m))
       /\ UNCHANGED <<sessionVars, peerVars, strokeVars>>
  \/ nEv < MaxRemoteEvents /\ clear
       /\ UNCHANGED <<sessionVars, peerVars, strokeVars>>
  \/ nEv < MaxRemoteEvents /\ connected /\ RelayInput
       /\ UNCHANGED <<peerVars, strokeVars>>
  \/ nEv < MaxRemoteEvents /\ Session
       /\ UNCHANGED <<sessionVars, peerVars, strokeVars>>
  \/ (\E i \in 1..Len(pending) : applyDataUrl(i))
       /\ UNCHANGED <<sessionVars, peerVars, strokeVars>>
  \/ (\E i \in 1..Len(pending) : userImgOnload(i))
       /\ UNCHANGED <<sessionVars, peerVars, strokeVars>>
  \/ (\E i \in 1..Len(pending) : updateRemoteCanvas(i))
       /\ UNCHANGED <<sessionVars, peerVars, strokeVars>>

SpecRemote == Init /\ [][NextRemote]_vars

\* gestures and history alone, on a window that is not resized
NextHistory ==
  \/ nEv < MaxHistoryEvents /\ Gesture
       /\ UNCHANGED <<sessionVars, peerVars, strokeVars>>
  \/ nEv < MaxHistoryEvents /\ clear
       /\ UNCHANGED <<sessionVars, peerVars, strokeVars>>
  \/ nEv < MaxHistoryEvents /\ undo
       /\ UNCHANGED <<sessionVars, peerVars, strokeVars>>
  \/ nEv < MaxHistoryEvents /\ redo
       /\ UNCHANGED <<sessionVars, peerVars, strokeVars>>
  \/ (\E i \in 1..Len(pending) : applyDataUrl(i))
       /\ UNCHANGED <<sessionVars, peerVars, strokeVars>>
  \/ (\E i \in 1..Len(pending) : userImgOnload(i))
       /\ UNCHANGED <<sessionVars, peerVars, strokeVars>>

SpecHistory == Init /\ [][NextHistory]_vars

\* the roster and the remote layers: peers join, send events and leave
NextRoster ==
  \/ nEv < MaxRosterEvents /\ onConnect
       /\ UNCHANGED <<sessionVars, peerVars, strokeVars>>
  \/ nEv < MaxRosterEvents /\ connected /\ (\E u \in Users : onUserJoin(u))
       /\ UNCHANGED <<peerVars, strokeVars>>
  \/ nEv < MaxRosterEvents /\ connected /\ (\E u \in Users : onUserLeave(u))
       /\ UNCHANGED <<peerVars, strokeVars>>
  \/ nEv < MaxRosterEvents /\ connected
       /\ (\E list \in Lists : onUsersUpdate(list))
       /\ UNCHANGED <<peerVars, strokeVars>>
  \/ nEv < MaxRosterEvents /\ connected
       /\ (\E u \in Users, type \in {"start", "move", "end"}, pos \in Cells :
              onDrawing(u, type, pos, "brush"))
       /\ UNCHANGED <<sessionVars, peerVars, strokeVars>>
  \/ nEv < MaxRosterEvents /\ connected
       /\ (\E kind \in {"on:undo", "on:redo"}, u \in Users :
             \E data \in Snapshots(u) : onUndoRedo(kind, u, data))
       /\ UNCHANGED <<sessionVars, peerVars, strokeVars>>
  \/ (\E i \in 1..Len(pending) : userImgOnload(i))
       /\ UNCHANGED <<sessionVars, peerVars, strokeVars>>
  \/ (\E i \in 1..Len(pending) : updateRemoteCanvas(i))
       /\ UNCHANGED <<sessionVars, peerVars, strokeVars>>

SpecRoster == Init /\ [][NextRoster]_vars

\* the canvas loses the pointer it captured in handlePointerDown without a
\* pointerup or pointercancel: setupEventListeners registers no listener for
\* lostpointercapture, so no handler runs
lostPointerCapture ==
  /\ nEv' = nEv + 1
  /\ rt' = IF drawing /\ rt.act = "open" THEN rt ELSE NoRt
  /\ rs' = NoRs
  /\ Ignored("lostpointercapture", Me)

\* the stroke session of author u after a drawing event of this type: it is
\* open from a 'start' to the next 'end', and ended from then on
Track(u, type) ==
  stroke' = [stroke EXCEPT
               ![u] = [session |-> IF type = "start" THEN "open"
                                   ELSE IF type = "end"
                                           /\ stroke[u].session = "open"
                                     THEN "ended"
                                   ELSE stroke[u].session,
                       last |-> type]]

\* strokes of the user and of one peer, with the user's history
NextStroke ==
  \/ nEv < MaxStrokeEvents /\ onConnect
       /\ UNCHANGED <<sessionVars, peerVars, strokeVars>>
  \/ nEv < MaxStrokeEvents /\ (\E pos \in Cells : handlePointerDown(pos, 0))
       /\ UNCHANGED <<sessionVars, peerVars, strokeVars>>
  \/ nEv < MaxStrokeEvents /\ (\E pos \in Cells : handlePointerMove(pos))
       /\ UNCHANGED <<sessionVars, peerVars, strokeVars>>
  \/ nEv < MaxStrokeEvents /\ handlePointerUp
       /\ UNCHANGED <<sessionVars, peerVars, strokeVars>>
  \/ nEv < MaxStrokeEvents /\ lostPointerCapture
       /\ UNCHANGED <<sessionVars, peerVars, strokeVars>>
  \/ nEv < MaxStrokeEvents /\ clear
       /\ UNCHANGED <<sessionVars, peerVars, strokeVars>>
  \/ nEv < MaxStrokeEvents /\ undo
       /\ UNCHANGED <<sessionVars, peerVars, strokeVars>>
  \/ nEv < MaxStrokeEvents /\ redo
       /\ UNCHANGED <<sessionVars, peerVars, strokeVars>>
  \/ nEv < MaxStrokeEvents /\ connected
       /\ (\E type \in {"start", "move", "end"}, pos \in Cells :
              onDrawing("u1", type, pos, "brush") /\ Track("u1", type))
       /\ UNCHANGED <<sessionVars, peerVars>>
  \/ (\E i \in 1..Len(pending) : applyDataUrl(i))
       /\ UNCHANGED <<sessionVars, peerVars, strokeVars>>
  \/ (\E i \in 1..Len(pending) : userImgOnload(i))
       /\ UNCHANGED <<sessionVars, peerVars, strokeVars>>

SpecStroke == Init /\ [][NextStroke]_vars

\* the user's stroke session as the relay sees it: sendDrawing() passes an
\* event on only while connected
TrackSent ==
  IF emitted' # <<>> /\ emitted'[1].type = "drawing"
  THEN Track(Me, emitted'[1].phase)
  ELSE UNCHANGED stroke

\* the user's gestures while the relay connects and disconnects
NextWire ==
  \/ nEv < MaxWireEvents /\ Gesture /\ TrackSent
       /\ UNCHANGED <<sessionVars, peerVars>>
  \/ nEv < MaxWireEvents /\ Session
       /\ UNCHANGED <<sessionVars, peerVars, strokeVars>>
  \/ (\E i \in 1..Len(pending) : userImgOnload(i))
       /\ UNCHANGED <<sessionVars, peerVars, strokeVars>>

SpecWire == Init /\ [][NextWire]_vars

\* the user, connected, and one peer that receives the user's events
NextPeer ==
  \/ nEv < MaxPeerEvents /\ pending = <<>> /\ onConnect
       /\ UNCHANGED <<sessionVars, strokeVars>> /\ Deliver(TRUE, TRUE)
  \/ nEv < MaxPeerEvents /\ connected /\ Gesture
       /\ UNCHANGED <<sessionVars, strokeVars>> /\ \E keep \in BOOLEAN : Deliver(keep, TRUE)
  \/ nEv < MaxPeerEvents /\ connected /\ (\E m \in Modes : setMode(m))
       /\ UNCHANGED <<sessionVars, strokeVars>> /\ Deliver(TRUE, TRUE)
  \/ nEv < MaxPeerEvents /\ connected /\ clear
       /\ UNCHANGED <<sessionVars, strokeVars>> /\ \E keep \in BOOLEAN : Deliver(keep, TRUE)
  \/ nEv < MaxPeerEvents /\ connected /\ undo
       /\ UNCHANGED <<sessionVars, strokeVars>> /\ Deliver(TRUE, TRUE)
  \/ nEv < MaxPeerEvents /\ connected /\ redo
       /\ UNCHANGED <<sessionVars, strokeVars>> /\ Deliver(TRUE, TRUE)
  \/ (\E i \in 1..Len(pending) : applyDataUrl(i))
       /\ UNCHANGED <<sessionVars, strokeVars>> /\ \E keep \in BOOLEAN : Deliver(keep, FALSE)
  \/ (\E i \in 1..Len(pending) : userImgOnload(i))
       /\ UNCHANGED <<sessionVars, strokeVars>> /\ Deliver(TRUE, FALSE)
  \/ \E j \in 1..Len(peerPending) : PeerDecode(j)

SpecPeer == Init /\ [][NextPeer]_vars

\* ---------------------------------------------------------- properties
MaxOf(S) == CHOOSE x \in S : \A y \in S : y <= x

\* the pixel that shows at cell c when opaque layers are stacked, the local
\* layer at the bottom and the remote layers above it in map order
Shown(c) ==
  LET bufs == <<userCanvas>> \o
              [k \in 1..Len(remoteOrder) |-> remote[remoteOrder[k]].buf]
      idx == {k \in 1..Len(bufs) : c <= Len(bufs[k]) /\ bufs[k][c] # None}
  IN  IF idx = {} THEN None ELSE bufs[MaxOf(idx)][c]

AllShown == \A c \in 1..Len(out) : out[c] = Shown(c)

\* an image stretched to width w
Scaled(img, w) == [i \in 1..w |-> img[(((i - 1) * Len(img)) \div w) + 1]]

OthersKept(a) ==
  /\ \A v \in AllIds \ {a} : remote'[v] = remote[v]
  /\ Without(remoteOrder', a) = Without(remoteOrder, a)

\* C1: an undo() followed by a redo(), each with its decode completed and
\* nothing else in between, leaves the local layer with the content it had
\* immediately before the undo.
C1_RoundTrip == rt.phase = 4 => userCanvas = rt.before

C1_Witness ==
  /\ rt.phase = 4
  /\ userCanvas # Blank(Len(userCanvas))
  /\ undoStack # <<>>

\* C2: undo() on an empty undoStack and redo() on an empty redoStack resolve
\* to false, leave the local layer and both stacks unchanged, start no decode
\* and send no event to the relay.
C2_EmptyUndoRedo ==
  [][((op'.name = "undo" /\ Len(undoStack) = 0)
        \/ (op'.name = "redo" /\ Len(redoStack) = 0))
     => /\ op'.ok = FALSE
        /\ emitted' = <<>>
        /\ UNCHANGED <<userCanvas, out, undoStack, redoStack, pending>>]_vars

C2_Witness ==
  /\ op.name = "redo"
  /\ ~op.ok
  /\ connected
  /\ userCanvas # Blank(Len(userCanvas))
  /\ undoStack # <<>>

\* C3: from the moment a new draw action pushes its pre-action snapshot
\* (pointerdown) or clear() is invoked, redoStack is empty.
C3_RedoClearedByNewAction ==
  [][((op'.name = "pointerdown" /\ op'.ok) \/ op'.name = "clear")
     => redoStack' = <<>>]_vars

\* C4: in every reachable state undoStack holds at most MAX_STACK snapshots.
C4_UndoStackBounded == Len(undoStack) <= MAX_STACK

\* C5: an eraser stroke step by the local user leaves every remote layer as
\* it was, one by a remote author leaves the local layer and every other
\* remote layer as they were, and the display still shows their marks.
C5_EraserOwnLayerOnly ==
  [][/\ (op'.name \in {"pointerdown", "pointermove"} /\ op'.ok
           /\ userCtx'.gco = "destination-out")
        => /\ UNCHANGED remoteVars
           /\ (op'.name = "pointermove" => AllShown')
     /\ (op'.name = "on:drawing" /\ op'.ok
           /\ remote'[op'.who].ctx.gco = "destination-out")
        => /\ UNCHANGED <<userCanvas, userCtx>>
           /\ OthersKept(op'.who)
           /\ AllShown']_vars

C5_Witness ==
  /\ op.name = "on:drawing"
  /\ op.ok
  /\ remote[op.who].ctx.gco = "destination-out"
  /\ \E c \in remote[op.who].ctx.cells : \E v \in Users \ {op.who} :
        /\ Has(v)
        /\ remote[v].buf[c + 1] = v
        /\ out[c + 1] = v

\* C6: a drawing, undo, redo, clear-canvas or cursor-move event that carries
\* the local userId changes no layer, creates no layer, starts no decode and
\* changes neither history stack.
C6_LoopbackDiscarded ==
  [][(op'.who = Me /\ op'.name \in {"on:drawing", "on:undo", "on:redo",
                                    "on:clear-canvas", "on:cursor-move"})
     => UNCHANGED <<userCanvas, userCtx, out, remoteVars, historyVars,
                    pending>>]_vars

C6_Witness ==
  /\ op.who = Me
  /\ op.name \in {"on:drawing", "on:undo"}
  /\ userCanvas # Blank(Len(userCanvas))
  /\ undoStack # <<>>

\* C7: a drawing event of a non-self author A leaves A with a layer and
\* changes nothing else: not the local layer, not the history stacks, not
\* another author's layer.
C7_RemoteDrawingOwnLayer ==
  [][(op'.name = "on:drawing" /\ op'.who # Me)
     => /\ \E k \in 1..Len(remoteOrder') : remoteOrder'[k] = op'.who
        /\ OthersKept(op'.who)
        /\ UNCHANGED <<userCanvas, userCtx, historyVars, pending>>]_vars

C7_Witness ==
  /\ op.name = "on:drawing"
  /\ op.ok
  /\ \E c \in 1..Len(remote[op.who].buf) : remote[op.who].buf[c] = op.who
  /\ \E v \in Users \ {op.who} :
        Has(v) /\ remote[v].buf # Blank(Len(remote[v].buf))

\* C8: a clear-canvas event of a non-self author A blanks A's layer and
\* keeps the local layer, the history stacks and the other remote layers; a
\* local clear() blanks the local layer and keeps every remote layer; the
\* display then shows exactly the marks that are left.
C8_ClearOwnLayerOnly ==
  [][/\ (op'.name = "on:clear-canvas" /\ op'.who # Me)
        => /\ OthersKept(op'.who)
           /\ remoteOrder' = remoteOrder
           /\ remote'[op'.who].buf = Blank(Len(remote[op'.who].buf))
           /\ UNCHANGED <<userCanvas, historyVars, pending>>
           /\ AllShown'
     /\ op'.name = "clear"
        => /\ UNCHANGED remoteVars
           /\ userCanvas' = Blank(Len(userCanvas))
           /\ AllShown']_vars

C8_Witness ==
  /\ op.name = "on:clear-canvas"
  /\ op.ok
  /\ remote[op.who].buf = Blank(Len(remote[op.who].buf))
  /\ \E v \in Users \ {op.who} : \E c \in 1..Len(remote[v].buf) :
        /\ remote[v].buf[c] = v
        /\ out[c] = v

\* C9: every layer holds only marks made by its own author.
C9_LayerOwnership ==
  /\ \A i \in 1..Len(userCanvas) : userCanvas[i] \in {None, Me}
  /\ \A u \in Users : \A i \in 1..Len(remote[u].buf) :
        remote[u].buf[i] \in {None, u}

\* C10: once setCanvasSize() and all of its decodes have run with no other
\* event in between, the local layer and every remote layer hold their
\* pre-resize content scaled to the new size, and the set of layers is the
\* same.
C10_ResizePreserves ==
  (rs.on /\ pending = <<>>)
  => /\ userCanvas = Scaled(rs.user, size)
     /\ remoteOrder = rs.order
     /\ \A u \in Users : Has(u) =>
           remote[u].buf = Scaled(rs.layers[u].buf, size)

\* C20: handlePointerDown and clear put the snapshot of the layer as it is
\* before the mutation on top of undoStack, and one undo issued right after a
\* completed gesture or a clear leaves the layer as it was before that
\* gesture or clear.
C20_UndoRestoresPrior ==
  [][/\ (op'.name \in {"pointerdown", "clear"} /\ op'.ok)
          => Top(undoStack') = toDataURL(userCanvas)
     /\ rt'.act = "restored" => userCanvas' = rt'.pre]_vars

\* a stroke was drawn and completed, and the undo took it off again
C20_Witness ==
  /\ rt.act = "restored"
  /\ op.name = "onload"
  /\ userCanvas = rt.pre
  /\ Len(redoStack) > 0
  /\ Top(redoStack) # rt.pre

\* the restore of one pending undo/redo snapshot has completed in this step
\* and the layer holds that snapshot, redrawn at the canvas size
Restored ==
  \E i \in 1..Len(pending) :
     /\ pending[i].kind = op'.who
     /\ pending' = Remove(pending, i)
     /\ userCanvas' = Scaled(pending[i].img, size)

\* exactly one event of the operation's type, carrying the resulting layer
SnapshotSent ==
  /\ Len(emitted') = 1
  /\ emitted'[1].type = op'.who
  /\ emitted'[1].data = toDataURL(userCanvas')

\* C13 as stated: every successful local undo or redo emits exactly one
\* undo or redo event that carries the resulting local layer, and an undo or
\* redo that returns false emits none.
C13_SnapshotAlwaysSent ==
  [][/\ (op'.name = "onload" /\ op'.who \in {"undo", "redo"})
          => (Restored /\ SnapshotSent)
     /\ (op'.name \in {"undo", "redo"} /\ ~op'.ok) => emitted' = <<>>]_vars

\* C13, amended: while the client is connected when the restore completes,
\* a successful local undo or redo emits exactly one undo or redo event that
\* carries the resulting local layer; disconnected it emits none, and an
\* undo or redo that returns false emits none.
C13_SnapshotSentWhenConnected ==
  [][/\ (op'.name = "onload" /\ op'.who \in {"undo", "redo"})
          => /\ Restored
             /\ connected => SnapshotSent
             /\ ~connected => emitted' = <<>>
     /\ (op'.name \in {"undo", "redo"} /\ ~op'.ok) => emitted' = <<>>]_vars

\* a redo that brought a stroke back was sent with the stroke in it
C13_Witness ==
  /\ op.name = "onload"
  /\ op.who = "redo"
  /\ connected
  /\ Len(emitted) = 1
  /\ emitted[1].type = "redo"
  /\ emitted[1].data = userCanvas
  /\ \E c \in 1..size : userCanvas[c] = Me

C19_RedoStackBounded == Len(redoStack) <= MAX_STACK

\* C15: an inbound event that lacks its pos or its users list, and a
\* snapshot of an inbound event that fails to decode, are dropped: nothing
\* is thrown or rejected, and no layer, roster or stack changes.
C15_MalformedDropped ==
  [][(\/ op'.name \in {"bad:drawing", "bad:users-update"}
      \/ op'.name = "onerror" /\ op'.who \in {"remoteUpdate", "load"})
       => /\ op'.err = "none"
          /\ UNCHANGED <<userCanvas, remoteVars, users, historyVars>>]_vars

\* C16: when the snapshot popped by undo() or redo() fails to decode, the
\* local layer is unchanged, the operation ends as it does on an empty stack
\* (a result, nothing thrown or rejected), and no event is emitted.
C16_DecodeFailureReported ==
  [][(op'.name = "onerror" /\ op'.who \in {"undo", "redo"})
       => /\ op'.err = "none"
          /\ ~op'.ok
          /\ userCanvas' = userCanvas
          /\ emitted' = <<>>]_vars

\* C17: after a user-left event for another author is handled, that author
\* is not in the roster, has no remote layer and no cursor element, and no
\* cell of the output shows the author's marks.
C17_LeaveRemovesAuthor ==
  [][(op'.name = "on:user-left" /\ op'.who \in Users)
       => /\ op'.who \notin Roster'
          /\ op'.who \notin cursors'
          /\ \A k \in 1..Len(remoteOrder') : remoteOrder'[k] # op'.who
          /\ \A c \in 1..Len(out') : out'[c] # op'.who]_vars

\* C18: a connected client that receives a request-canvas-state event
\* emits one canvas-state event that carries the snapshot of its local layer.
C18_StateRequestAnswered ==
  [][(op'.name = "on:request-canvas-state" /\ connected)
       => /\ Len(emitted') = 1
          /\ emitted'[1].type = "canvas-state"
          /\ emitted'[1].data = toDataURL(userCanvas)]_vars

\* C11: when every event this user emitted reached the peer, in emission
\* order, and the peer has no snapshot decode in flight, the peer's layer for
\* this user has the content of this user's local layer.
C11_ReplayConsistent ==
  (link.lossless /\ peerPending = <<>>) => PeerBuf = userCanvas

\* C12: when the event of this user's latest successful clear, undo or redo
\* reached the peer, this user has changed nothing since, and the peer has no
\* snapshot decode in flight, the peer's layer for this user has the content
\* of this user's local layer.
C12_SnapshotHeals ==
  (link.healed /\ peerPending = <<>>) => PeerBuf = userCanvas

\* C22: the local layer, every remote layer and the output surface have the
\* same buffer size in every reachable state.
C22_LayersInLockstep ==
  /\ Len(userCanvas) = Len(out)
  /\ \A u \in Users : Has(u) => Len(remote[u].buf) = Len(out)

\* C23: when a handler or a decode callback has changed the content of a
\* layer or the set of layers, the output surface is the composition of the
\* layers as they are after it.
C23_RecomposedAfterChange ==
  [][(\/ userCanvas' # userCanvas
      \/ remoteOrder' # remoteOrder
      \/ \E u \in Users : remote'[u].buf # remote[u].buf)
       => out' = composeLayers(userCanvas', remoteOrder', remote', size')]_vars

\* C21: a brush segment stroked on a layer after setCanvasSize() began and
\* right before that layer's restore callback ran is still in the layer
\* after the callback, for the local layer and for a remote author's layer.
C21_ResizeKeepsStrokes ==
  [][/\ (/\ op.name = "pointermove" /\ op.ok
         /\ userCtx.gco = "source-over"
         /\ op'.name = "onload" /\ op'.who = "resizeUser")
          => \A c \in userCtx.cells :
                (c + 1) \in 1..Len(userCanvas') => userCanvas'[c + 1] = Me
     /\ (/\ op.name = "on:drawing" /\ op.ok /\ op.who \in Users
         /\ remote[op.who].ctx.gco = "source-over"
         /\ op'.name = "onload" /\ op'.who = "resizeRemote"
         /\ \E i \in 1..Len(pending) :
               /\ pending[i].kind = "resizeRemote"
               /\ pending[i].who = op.who
               /\ pending' = Remove(pending, i))
          => \A c \in remote[op.who].ctx.cells :
                (c + 1) \in 1..Len(remote'[op.who].buf)
                  => remote'[op.who].buf[c + 1] = op.who]_vars

\* C28: while the snapshot of an undo() or redo() is being decoded, no
\* second undo or redo, no pushUndo (pointerdown, clear) and no stroke
\* segment reads or writes the local layer.
C28_NoAccessDuringRestore ==
  [][(/\ \E i \in 1..Len(pending) : pending[i].kind \in {"undo", "redo"}
      /\ op'.name \in {"undo", "redo", "pointerdown", "pointermove", "clear"})
       => ~op'.ok]_vars

\* C29: after a users-update event with list L the roster is L without the
\* local user, and the roster never contains the local userId.
C29_RosterExcludesSelf ==
  [][/\ op'.name = "on:users-update"
          => Roster' = {op'.arg[k] : k \in 1..Len(op'.arg)} \ {Me}
     /\ Me \notin Roster']_vars

C24_NoMoveAfterEnd ==
  [][/\ (~drawing /\ op'.name = "pointermove")
          => /\ userCanvas' = userCanvas
             /\ userCtx' = userCtx
             /\ emitted' = <<>>
     /\ \A u \in Users :
          (/\ stroke[u].session = "ended"
           /\ op'.name = "on:drawing" /\ op'.who = u
           /\ stroke'[u].last = "move")
            => remote'[u] = remote[u]]_vars

\* C25: an author has at most one stroke session: a 'start' from a peer whose
\* stroke is open is discarded, and a pointerdown while the user is drawing
\* pushes no undo snapshot and sends no second 'start'
C25_OneSessionPerAuthor ==
  [][/\ \A u \in Users :
          (/\ stroke[u].session = "open"
           /\ op'.name = "on:drawing" /\ op'.who = u
           /\ stroke'[u].last = "start")
            => remote'[u] = remote[u]
     /\ (drawing /\ op'.name = "pointerdown")
          => /\ undoStack' = undoStack
             /\ emitted' = <<>>]_vars

\* C26: while the user is drawing, a pointercancel and the loss of the
\* captured pointer do what a pointerup does: the session is closed, the redo
\* stack is emptied, one 'end' event goes to the relay, the output is
\* recomposed
C26_CancelEndsStroke ==
  [][(drawing /\ op'.name \in {"pointerup", "lostpointercapture"})
       => /\ ~drawing'
          /\ redoStack' = <<>>
          /\ emitted' = Send(<<Ev("drawing", "end", lastPos, mode, <<>>)>>)
          /\ out' = composeLayers(userCanvas', remoteOrder', remote',
                                  size')]_vars

\* C27: a gesture, clear, undo or redo of the user, and the decode that
\* finishes an undo or redo, leave every remote layer and the set of remote
\* layers as they were
C27_LocalLeavesRemote ==
  [][(\/ op'.name \in {"pointerdown", "pointermove", "pointerup", "clear",
                       "undo", "redo"}
      \/ op'.name = "onload" /\ op'.who \in {"undo", "redo"})
       => UNCHANGED remoteVars]_vars

\* an undo has been decoded onto the local layer while a peer's layer holds
\* marks that are shown
C27_Witness ==
  /\ op.name = "onload" /\ op.who = "undo" /\ op.ok
  /\ Has("u1")
  /\ \E c \in 1..Len(out) : remote["u1"].buf[c] = "u1" /\ out[c] = "u1"

\* C31: every drawing event sent for a gesture in progress carries the mode
\* that was chosen at its pointerdown, which is the mode the local layer is
\* painted with, also when setMode is called during the gesture
C31_ModePerGesture ==
  [][(drawing /\ op'.name \in {"pointermove", "pointerup"} /\ op'.ok)
       => \A k \in 1..Len(emitted') :
            emitted'[k].type = "drawing"
              => GcoOf(emitted'[k].mode) = userCtx'.gco]_vars

\* the content the local layer has once the snapshots being decoded for
\* undo() and redo() are applied: the one requested last, else the layer
RestoredLayer ==
  LET idx == {i \in 1..Len(pending) : pending[i].kind \in {"undo", "redo"}}
  IN  IF idx = {} THEN toDataURL(userCanvas) ELSE pending[MaxOf(idx)].img

\* the history as one line: the undo stack, the layer, the redo stack from
\* its top down
HistoryLine ==
  undoStack \o <<RestoredLayer>> \o
    [k \in 1..Len(redoStack) |-> redoStack[Len(redoStack) + 1 - k]]

\* C32: undo() and redo(), and the decode that completes them, keep the line
\* of snapshots (undo stack, layer, redo stack reversed) as it was, also when
\* a call is made before the decode of the previous one has completed
C32_LinearHistory ==
  [][(\/ op'.name \in {"undo", "redo"} /\ op'.ok
      \/ op'.name = "onload" /\ op'.who \in {"undo", "redo"})
       => HistoryLine' = HistoryLine]_vars

\* C33: the drawing events sent to the relay form gestures: a 'start' is sent
\* only when no sent stroke is open, a 'move' or an 'end' only when one is,
\* whatever the relay's connects and disconnects
C33_SentStrokesWellFormed ==
  [][\A k \in 1..Len(emitted') :
       emitted'[k].type = "drawing"
         => IF emitted'[k].phase = "start"
            THEN stroke[Me].session # "open"
            ELSE stroke[Me].session = "open"]_vars
====
